---- MODULE Spec2Model ----
(***************************************************************************)
(* objecty (src/index.js): recursive clone / merge / mergeSafe /           *)
(* mergeArrays / changes over JavaScript object graphs, and the            *)
(* prototype-chain reflection helpers getProps / getPropDesc / cloneClass. *)
(*                                                                         *)
(* The object graph is a heap: a sequence of nodes addressed 1..Len(heap). *)
(* A node is an object or an array with a prototype link and an ordered    *)
(* list of own property descriptors.  Property keys are strings, as in     *)
(* JavaScript (array indices are the keys "0", "1", ...).                  *)
(***************************************************************************)
EXTENDS Integers, Sequences, FiniteSets, TLC

VARIABLES
    heap,   \* the object graph
    pre,    \* the heap as it was when the last call was made
    pc,     \* the caller's position: which inputs it holds, which call is next
    op,     \* the last function called
    args,   \* its arguments, heap addresses (0 for an omitted or null one)
    ret,    \* its return value
    err,    \* the error it threw, "" for none
    names,  \* the array of names getProps returned
    trip    \* the diff round trip in progress: original, its clone, candidate

vars == <<heap, pre, pc, op, args, ret, err, names, trip>>

(***************************************************************************)
(* JavaScript values.  One record shape for every value: t is the type     *)
(* tag, n the number / boolean / heap address, s the string or the         *)
(* function's name.                                                        *)
(***************************************************************************)
Undef == [t |-> "undefined", n |-> 0, s |-> ""]

Null == [t |-> "null", n |-> 0, s |-> ""]

Bool(b) == [t |-> "boolean", n |-> IF b THEN 1 ELSE 0, s |-> ""]

Num(i) == [t |-> "number", n |-> i, s |-> ""]

NaN == [t |-> "number", n |-> 0, s |-> "NaN"]

Str(x) == [t |-> "string", n |-> 0, s |-> x]

Fn(f) == [t |-> "function", n |-> 0, s |-> f]

Ref(a) == [t |-> "object", n |-> a, s |-> ""]

\* typeof v
TypeOf(v) == IF v.t = "null" THEN "object" ELSE v.t

IsRef(v) == v.t = "object"

IsNaN(v) == v.t = "number" /\ v.s = "NaN"

\* !v is false: the value is truthy
Truthy(v) ==
    CASE v.t = "undefined" -> FALSE
      [] v.t = "null" -> FALSE
      [] v.t = "boolean" -> v.n = 1
      [] v.t = "number" -> ~IsNaN(v) /\ v.n # 0
      [] v.t = "string" -> v.s # ""
      [] OTHER -> TRUE

\* x === y
StrictEq(x, y) == x = y /\ ~IsNaN(x)

\* Array.prototype.includes compares with SameValueZero: NaN is found.
SameValueZero(x, y) == x = y

(***************************************************************************)
(* Property descriptors and nodes.                                         *)
(***************************************************************************)
\* an own data property as plain assignment creates it
DataProp(k, v) ==
    [key |-> k, value |-> v, writable |-> TRUE, enumerable |-> TRUE,
     accessor |-> FALSE, get |-> FALSE, set |-> FALSE, backed |-> FALSE]

\* an accessor property whose getter returns the constant v, as
\* get childPublic() { return 'childPublic'; }
AccProp(k, v, hasGet, hasSet, en) ==
    [key |-> k, value |-> v, writable |-> FALSE, enumerable |-> en,
     accessor |-> TRUE, get |-> hasGet, set |-> hasSet, backed |-> FALSE]

\* an accessor property whose getter reads the backing field, as
\* get parentPublic() { return this._parentPublic; }
BackedProp(k, hasSet) ==
    [key |-> k, value |-> Undef, writable |-> FALSE, enumerable |-> FALSE,
     accessor |-> TRUE, get |-> TRUE, set |-> hasSet, backed |-> TRUE]

\* getOwnPropertyDescriptor found nothing
NoDesc ==
    [key |-> "", value |-> Undef, writable |-> FALSE, enumerable |-> FALSE,
     accessor |-> FALSE, get |-> FALSE, set |-> FALSE, backed |-> FALSE]

\* {} (proto 0 is Object.prototype, the terminal root)
NewObj == [kind |-> "obj", proto |-> 0, props |-> <<>>]

\* []
NewArr == [kind |-> "arr", proto |-> 0, props |-> <<>>]

\* Object.create(proto)
ObjectCreate(p) == [kind |-> "obj", proto |-> p, props |-> <<>>]

Alloc(h, node) == [h |-> Append(h, node), a |-> Len(h) + 1]

IsArray(h, v) == IsRef(v) /\ h[v.n].kind = "arr"

OwnIdx(node, k) == {i \in 1..Len(node.props) : node.props[i].key = k}

HasOwn(node, k) == OwnIdx(node, k) # {}

\* Object.getOwnPropertyDescriptor(obj, k)
GetOwnPropertyDescriptor(h, a, k) ==
    IF HasOwn(h[a], k)
    THEN h[a].props[CHOOSE i \in OwnIdx(h[a], k) : TRUE]
    ELSE NoDesc

\* Object.getOwnPropertyNames(obj)
GetOwnPropertyNames(h, a) == [i \in 1..Len(h[a].props) |-> h[a].props[i].key]

\* Object.getPrototypeOf(obj)
GetPrototypeOf(h, a) == h[a].proto

(***************************************************************************)
(* Bounds of the model.                                                    *)
(***************************************************************************)
\* longest input array
MaxLen == 3

\* call-stack frames the engine grants before it throws RangeError
MaxStack == 5

\* array index keys the model can name
IdxKeys == {ToString(i) : i \in 0..(2 * MaxLen + 2)}

IsIdx(k) == k \in IdxKeys

IdxOf(k) == CHOOSE i \in 0..(2 * MaxLen + 2) : ToString(i) = k

(***************************************************************************)
(* Property access: obj[k], obj[k] = v, for (p in obj).                    *)
(***************************************************************************)
RECURSIVE getPropDesc(_, _, _)
\* getPropDesc(obj, k): the first descriptor found walking the chain,
\* null (NoDesc) once Object.prototype is reached
getPropDesc(h, obj, k) ==
    IF obj = 0 THEN NoDesc
    ELSE IF HasOwn(h[obj], k) THEN GetOwnPropertyDescriptor(h, obj, k)
    ELSE getPropDesc(h, GetPrototypeOf(h, obj), k)

\* the value a data descriptor holds, what a constant getter returns
ValueOf(d) ==
    IF d = NoDesc THEN Undef
    ELSE IF d.accessor /\ ~d.get THEN Undef
    ELSE d.value

\* obj[k] with d the descriptor the chain holds for k: a data property's
\* value, or what the getter returns (this._k for a backed getter)
GetWith(h, a, k, d) ==
    IF d.backed THEN ValueOf(getPropDesc(h, a, "_" \o k))
    ELSE ValueOf(d)

Get(h, a, k) == GetWith(h, a, k, getPropDesc(h, a, k))

\* own keys order: integer keys ascending first, then strings as created
InsertAt(node, k) ==
    IF IsIdx(k)
    THEN Cardinality({i \in 1..Len(node.props) :
             IsIdx(node.props[i].key) /\ IdxOf(node.props[i].key) < IdxOf(k)}) + 1
    ELSE Len(node.props) + 1

DefineOwn(node, k, v) ==
    LET at == InsertAt(node, k)
    IN  [node EXCEPT !.props =
            SubSeq(node.props, 1, at - 1) \o <<DataProp(k, v)>>
            \o SubSeq(node.props, at, Len(node.props))]

SetOwn(h, a, k, v) ==
    IF HasOwn(h[a], k)
    THEN [h EXCEPT ![a].props[CHOOSE i \in OwnIdx(h[a], k) : TRUE].value = v]
    ELSE [h EXCEPT ![a] = DefineOwn(h[a], k, v)]

\* obj[k] = v in strict mode (the module is an ES module), d the
\* descriptor the chain holds for k.  A setter is user code; it is
\* modelled as the test script's setters are written:
\* set k(v) { this._k = v }
PutWith(h, a, k, v, d) ==
    IF d = NoDesc THEN [h |-> SetOwn(h, a, k, v), err |-> ""]
    ELSE IF d.accessor
    THEN IF d.set THEN [h |-> SetOwn(h, a, "_" \o k, v), err |-> ""]
         ELSE [h |-> h, err |-> "TypeError"]
    ELSE IF d.writable THEN [h |-> SetOwn(h, a, k, v), err |-> ""]
    ELSE [h |-> h, err |-> "TypeError"]

Put(h, a, k, v) == PutWith(h, a, k, v, getPropDesc(h, a, k))

RECURSIVE ForInFrom(_, _, _)
\* the keys for (p in obj) visits: own enumerable keys, then each
\* prototype's; a key shadowed nearer the object is not visited again
ForInFrom(h, a, seen) ==
    IF a = 0 THEN <<>>
    ELSE SelectSeq(GetOwnPropertyNames(h, a),
                   LAMBDA p : GetOwnPropertyDescriptor(h, a, p).enumerable /\ p \notin seen)
         \o ForInFrom(h, GetPrototypeOf(h, a),
                      seen \cup {h[a].props[i].key : i \in 1..Len(h[a].props)})

ForIn(h, a) == ForInFrom(h, a, {})

\* the array's elements, in index order
Elems(h, a) == [i \in 1..Len(h[a].props) |-> h[a].props[i].value]

\* arr.includes(v)
Includes(h, a, v) == \E i \in 1..Len(h[a].props) : SameValueZero(h[a].props[i].value, v)

\* arr.push(v)
Push(h, a, v) == [h EXCEPT ![a] = DefineOwn(h[a], ToString(Len(h[a].props)), v)]

(***************************************************************************)
(* The == operator (abstract equality) and the conversions it makes.       *)
(***************************************************************************)
\* Number(s) for the strings the model holds: "" is 0, a decimal digit is
\* its number, anything else NaN
StrToNum(x) ==
    IF x = "" THEN Num(0)
    ELSE IF \E i \in 0..9 : ToString(i) = x
    THEN Num(CHOOSE i \in 0..9 : ToString(i) = x)
    ELSE NaN

RECURSIVE ToStr(_, _), Join(_, _, _)
\* String(v); an array joins its elements with ",", a plain object is
\* "[object Object]"
ToStr(h, v) ==
    CASE v.t = "undefined" -> "undefined"
      [] v.t = "null" -> "null"
      [] v.t = "boolean" -> IF v.n = 1 THEN "true" ELSE "false"
      [] v.t = "number" -> IF IsNaN(v) THEN "NaN" ELSE ToString(v.n)
      [] v.t = "string" -> v.s
      [] v.t = "function" -> "function " \o v.s
      [] OTHER -> IF h[v.n].kind = "arr" THEN Join(h, v.n, 1) ELSE "[object Object]"

Join(h, a, i) ==
    IF i > Len(h[a].props) THEN ""
    ELSE LET e == h[a].props[i].value
         IN  (IF i > 1 THEN "," ELSE "")
             \o (IF e.t \in {"undefined", "null"} THEN "" ELSE ToStr(h, e))
             \o Join(h, a, i + 1)

RECURSIVE LooseEq(_, _, _)
\* x == y
LooseEq(h, x, y) ==
    LET Nullish(v) == v.t \in {"undefined", "null"}
        Obj(v) == v.t \in {"object", "function"}
        Prim(v) == v.t \in {"number", "string"}
    IN  CASE x.t = y.t -> StrictEq(x, y)
          [] Nullish(x) /\ Nullish(y) -> TRUE
          [] Nullish(x) \/ Nullish(y) -> FALSE
          [] x.t = "number" /\ y.t = "string" -> StrictEq(x, StrToNum(y.s))
          [] x.t = "string" /\ y.t = "number" -> StrictEq(StrToNum(x.s), y)
          [] x.t = "boolean" -> LooseEq(h, Num(x.n), y)
          [] y.t = "boolean" -> LooseEq(h, x, Num(y.n))
          [] Obj(x) /\ Prim(y) -> LooseEq(h, Str(ToStr(h, x)), y)
          [] Prim(x) /\ Obj(y) -> LooseEq(h, x, Str(ToStr(h, y)))
          [] OTHER -> FALSE

(***************************************************************************)
(* The library.  Every function takes the heap, returns the heap it        *)
(* leaves, the error it threw ("" for none) and its return value.  depth   *)
(* counts the call-stack frames in use: the engine throws RangeError       *)
(* when a call would need more than MaxStack.  A loop is an operator       *)
(* over the keys ks that for-in listed when the loop began, i the          *)
(* position reached.                                                       *)
(***************************************************************************)
Ok(h, v) == [h |-> h, err |-> "", val |-> v]

Throw(h, e) == [h |-> h, err |-> e, val |-> Undef]

\* f.call(self) for the functions of the model: "cloneSelf" is a clone
\* capability that hands back its own object, any other returns undefined
Call(h, f, self) == Ok(h, IF f.s = "cloneSelf" THEN Ref(self) ELSE Undef)

\* o.clone && typeof o.clone === 'function'
HasCloneFn(f) == Truthy(f) /\ TypeOf(f) = "function"

\* Variant: membership tested against the growing result, which would drop
\* the duplicates inside a2
NotInResult(h, a1, a, v) == ~Includes(h, a, v)

\* a1.includes(v) === false, the test mergeArrays makes before a.push(v)
NotInFirst(h, a1, a, v) == ~Includes(h, a1, v)

RECURSIVE mergeArraysLoop(_, _, _, _, _)
mergeArraysLoop(h, a1, a, a2, i) ==
    IF i > Len(h[a2].props) THEN h
    ELSE IF NotInFirst(h, a1, a, h[a2].props[i].value)
    THEN mergeArraysLoop(Push(h, a, h[a2].props[i].value), a1, a, a2, i + 1)
    ELSE mergeArraysLoop(h, a1, a, a2, i + 1)

\* a1.slice()
Slice(h, a) ==
    Alloc(h, [NewArr EXCEPT !.props =
                 [i \in 1..Len(h[a].props) |-> DataProp(ToString(i - 1), h[a].props[i].value)]])

mergeArraysInto(al, a1, a2) == Ok(mergeArraysLoop(al.h, a1, al.a, a2, 1), Ref(al.a))

mergeArrays(h, a1, a2) == mergeArraysInto(Slice(h, a1), a1, a2)

RECURSIVE clone(_, _, _, _), cloneLoop(_, _, _, _, _, _)
\* dest[p] = r.val, then the next key; a throw ends the loop
cloneStored(w, src, dest, ks, i, depth) ==
    IF w.err # "" THEN Throw(w.h, w.err)
    ELSE cloneLoop(w.h, src, dest, ks, i + 1, depth)

cloneStore(r, src, dest, ks, i, depth) ==
    IF r.err # "" THEN r
    ELSE cloneStored(Put(r.h, dest, ks[i], r.val), src, dest, ks, i, depth)

cloneInto(al, src, depth) == clone(al.h, src, al.a, depth)

\* Variant: a shallow copy, every sub-aggregate stored by reference
cloneSlotShallow(h, o, depth) == Ok(h, o)

\* the value clone stores for the slot holding o
cloneSlot(h, o, depth) ==
    IF o.t \in {"null", "undefined"} THEN Ok(h, o)
    ELSE IF IsArray(h, o) THEN cloneInto(Alloc(h, NewArr), o.n, depth + 1)
    ELSE IF TypeOf(o) = "object"
    THEN IF HasCloneFn(Get(h, o.n, "clone"))
         THEN Call(h, Get(h, o.n, "clone"), o.n)
         ELSE clone(h, o.n, 0, depth + 1)
    ELSE Ok(h, o)

cloneLoop(h, src, dest, ks, i, depth) ==
    IF i > Len(ks) THEN Ok(h, Ref(dest))
    ELSE cloneStore(cloneSlot(h, Get(h, src, ks[i]), depth), src, dest, ks, i, depth)

\* clone(src, dest = {}); dest = 0 stands for the omitted argument
clone(h, src, dest, depth) ==
    IF depth > MaxStack THEN Throw(h, "RangeError")
    ELSE IF dest = 0
    THEN cloneLoop(Append(h, NewObj), src, Len(h) + 1, ForIn(h, src), 1, depth)
    ELSE cloneLoop(h, src, dest, ForIn(h, src), 1, depth)

RECURSIVE merge(_, _, _, _), mergeLoop(_, _, _, _, _, _)
\* typeof srcSub !== 'object' && typeof srcSub !== 'function'
Overwrites(srcSub) == TypeOf(srcSub) # "object" /\ TypeOf(srcSub) # "function"

mergeStored(w, dest, src, ks, i, depth) ==
    IF w.err # "" THEN Throw(w.h, w.err)
    ELSE mergeLoop(w.h, dest, src, ks, i + 1, depth)

mergeReturned(r, dest, src, ks, i, depth) ==
    IF r.err # "" THEN r
    ELSE mergeLoop(r.h, dest, src, ks, i + 1, depth)

mergeArraysStore(m, dest, src, ks, i, depth) ==
    mergeStored(Put(m.h, dest.n, ks[i], m.val), dest, src, ks, i, depth)

\* the branches on destSub = dest[p], for a srcSub that is an object
\* or a function
mergeSub(h, dest, src, ks, i, depth, srcSub, destSub) ==
    IF IsArray(h, destSub)
    THEN IF IsArray(h, srcSub)
         THEN mergeArraysStore(mergeArrays(h, destSub.n, srcSub.n), dest, src, ks, i, depth)
         ELSE IF ~Includes(h, destSub.n, srcSub)
         THEN mergeLoop(Push(h, destSub.n, srcSub), dest, src, ks, i + 1, depth)
         ELSE mergeLoop(h, dest, src, ks, i + 1, depth)
    ELSE IF TypeOf(destSub) = "object"
    THEN mergeReturned(merge(h, destSub, srcSub, depth + 1), dest, src, ks, i, depth)
    ELSE mergeLoop(h, dest, src, ks, i + 1, depth)

\* the loop body; reading or writing a property of a dest that is null
\* throws TypeError
mergeSlot(h, dest, src, ks, i, depth, srcSub) ==
    IF ~IsRef(dest) THEN Throw(h, "TypeError")
    ELSE IF Overwrites(srcSub)
    THEN mergeStored(Put(h, dest.n, ks[i], srcSub), dest, src, ks, i, depth)
    ELSE mergeSub(h, dest, src, ks, i, depth, srcSub, Get(h, dest.n, ks[i]))

mergeLoop(h, dest, src, ks, i, depth) ==
    IF i > Len(ks) THEN Ok(h, Undef)
    ELSE mergeSlot(h, dest, src, ks, i, depth, Get(h, src, ks[i]))

\* merge(dest, src); dest and src are values: the recursion passes
\* whatever typeof calls an object, null included.  for-in over null or
\* over a function visits nothing
merge(h, dest, src, depth) ==
    IF depth > MaxStack THEN Throw(h, "RangeError")
    ELSE IF ~IsRef(src) THEN Ok(h, Undef)
    ELSE mergeLoop(h, dest, src.n, ForIn(h, src.n), 1, depth)

\* Variant: destSub == undefined, which would also backfill a null slot
DestMissingLoose(destSub) == destSub.t \in {"undefined", "null"}

RECURSIVE mergeSafe(_, _, _, _), mergeSafeLoop(_, _, _, _, _, _)
\* destSub === undefined
DestMissing(destSub) == StrictEq(destSub, Undef)

mergeSafeStored(w, dest, src, ks, i, depth) ==
    IF w.err # "" THEN Throw(w.h, w.err)
    ELSE mergeSafeLoop(w.h, dest, src, ks, i + 1, depth)

mergeSafeStore(r, dest, src, ks, i, depth) ==
    IF r.err # "" THEN r
    ELSE mergeSafeStored(Put(r.h, dest, ks[i], r.val), dest, src, ks, i, depth)

mergeSafeReturned(r, dest, src, ks, i, depth) ==
    IF r.err # "" THEN r
    ELSE mergeSafeLoop(r.h, dest, src, ks, i + 1, depth)

\* clone( srcSub, Array.isArray(srcSub) ? [] : {} ), or srcSub itself
mergeSafeCopy(h, srcSub, depth) ==
    IF srcSub # Null /\ TypeOf(srcSub) = "object"
    THEN cloneInto(Alloc(h, IF IsArray(h, srcSub) THEN NewArr ELSE NewObj), srcSub.n, depth + 1)
    ELSE Ok(h, srcSub)

mergeSafeSlot(h, dest, src, ks, i, depth, destSub, srcSub) ==
    IF DestMissing(destSub)
    THEN mergeSafeStore(mergeSafeCopy(h, srcSub, depth), dest, src, ks, i, depth)
    ELSE IF StrictEq(destSub, Null)
    THEN mergeSafeLoop(h, dest, src, ks, i + 1, depth)
    ELSE IF Truthy(srcSub) /\ TypeOf(destSub) = "object" /\ TypeOf(srcSub) = "object"
            /\ ~IsArray(h, destSub) /\ ~IsArray(h, srcSub)
    THEN mergeSafeReturned(mergeSafe(h, destSub.n, srcSub.n, depth + 1), dest, src, ks, i, depth)
    ELSE mergeSafeLoop(h, dest, src, ks, i + 1, depth)

mergeSafeLoop(h, dest, src, ks, i, depth) ==
    IF i > Len(ks) THEN Ok(h, Undef)
    ELSE mergeSafeSlot(h, dest, src, ks, i, depth, Get(h, dest, ks[i]), Get(h, src, ks[i]))

mergeSafe(h, dest, src, depth) ==
    IF depth > MaxStack THEN Throw(h, "RangeError")
    ELSE mergeSafeLoop(h, dest, src, ForIn(h, src), 1, depth)

\* Variant: without the falsy test of lines 24 to 26
BothFalsyNever(sub, orig) == FALSE

RECURSIVE changes(_, _, _, _), changesLoop(_, _, _, _, _, _, _)
\* if ( !sub ) { if (!orig) continue; }
BothFalsy(sub, orig) == ~Truthy(sub) /\ ~Truthy(orig)

changesPut(al, v, cl, original, ks, i, depth) ==
    changesLoop(Put(al.h, al.a, ks[i], v).h, cl, original, ks, i + 1, al.a, depth)

\* if ( res === null ) res = {}; res[p] = v
changesRecord(h, v, cl, original, ks, i, res, depth) ==
    IF res = 0
    THEN changesPut(Alloc(h, NewObj), v, cl, original, ks, i, depth)
    ELSE changesPut([h |-> h, a |-> res], v, cl, original, ks, i, depth)

\* sub = changes( sub, orig ); if ( sub === null ) continue
changesReturned(r, cl, original, ks, i, res, depth) ==
    IF r.err # "" THEN r
    ELSE IF r.val = Null
    THEN changesLoop(r.h, cl, original, ks, i + 1, res, depth)
    ELSE changesRecord(r.h, r.val, cl, original, ks, i, res, depth)

changesSlot(h, cl, original, ks, i, res, depth, sub, orig) ==
    IF LooseEq(h, sub, orig)
    THEN changesLoop(h, cl, original, ks, i + 1, res, depth)
    ELSE IF ~Truthy(sub)
    THEN IF BothFalsy(sub, orig)
         THEN changesLoop(h, cl, original, ks, i + 1, res, depth)
         ELSE changesRecord(h, sub, cl, original, ks, i, res, depth)
    ELSE IF TypeOf(sub) = "object" /\ TypeOf(orig) = "object" /\ orig # Null
    THEN changesReturned(changes(h, sub.n, orig.n, depth + 1), cl, original, ks, i, res, depth)
    ELSE changesRecord(h, sub, cl, original, ks, i, res, depth)

\* res = 0 stands for res === null
changesLoop(h, cl, original, ks, i, res, depth) ==
    IF i > Len(ks) THEN Ok(h, IF res = 0 THEN Null ELSE Ref(res))
    ELSE changesSlot(h, cl, original, ks, i, res, depth,
                     Get(h, cl, ks[i]), Get(h, original, ks[i]))

\* changes(clone, original)
changes(h, cl, original, depth) ==
    IF depth > MaxStack THEN Throw(h, "RangeError")
    ELSE changesLoop(h, cl, original, ForIn(h, cl), 1, 0, depth)

RECURSIVE cloneClass(_, _, _, _), cloneClassLoop(_, _, _, _, _, _)
\* def && ( !def.writable || def.set === undefined ): writable is
\* undefined on an accessor descriptor, set is undefined on a data one
SkipSlot(def) ==
    /\ def # NoDesc
    /\ \/ ~(~def.accessor /\ def.writable)
       \/ ~(def.accessor /\ def.set)

cloneClassStored(w, src, dest, ks, i, depth) ==
    IF w.err # "" THEN Throw(w.h, w.err)
    ELSE cloneClassLoop(w.h, src, dest, ks, i + 1, depth)

cloneClassStore(r, src, dest, ks, i, depth) ==
    IF r.err # "" THEN r
    ELSE cloneClassStored(Put(r.h, dest, ks[i], r.val), src, dest, ks, i, depth)

\* the value cloneClass stores for the slot holding o
cloneClassSlot(h, o, depth) ==
    IF o.t \in {"null", "undefined"} THEN Ok(h, o)
    ELSE IF TypeOf(o) = "object"
    THEN IF HasCloneFn(Get(h, o.n, "clone"))
         THEN Call(h, Get(h, o.n, "clone"), o.n)
         ELSE cloneClass(h, o.n, 0, depth + 1)
    ELSE Ok(h, o)

cloneClassLoop(h, src, dest, ks, i, depth) ==
    IF i > Len(ks) THEN Ok(h, Ref(dest))
    ELSE IF SkipSlot(getPropDesc(h, dest, ks[i]))
    THEN cloneClassLoop(h, src, dest, ks, i + 1, depth)
    ELSE cloneClassStore(cloneClassSlot(h, Get(h, src, ks[i]), depth), src, dest, ks, i, depth)

\* cloneClass(src, dest = null); dest = 0 stands for null
cloneClass(h, src, dest, depth) ==
    IF depth > MaxStack THEN Throw(h, "RangeError")
    ELSE IF dest = 0
    THEN cloneClassLoop(Append(h, IF h[src].kind = "arr" THEN NewArr
                                  ELSE ObjectCreate(GetPrototypeOf(h, src))),
                        src, Len(h) + 1, ForIn(h, src), 1, depth)
    ELSE cloneClassLoop(h, src, dest, ForIn(h, src), 1, depth)

RECURSIVE getPropsWalk(_, _, _, _)
\* the while loop of getProps over the chain from proto up: a name is
\* pushed unless obj[p] is a function or, when getters are not wanted,
\* its descriptor at this level has a getter
getPropsWalk(h, obj, proto, getters) ==
    IF proto = 0 THEN <<>>
    ELSE SelectSeq(GetOwnPropertyNames(h, proto),
                   LAMBDA p : /\ TypeOf(Get(h, obj, p)) # "function"
                              /\ getters \/ ~GetOwnPropertyDescriptor(h, proto, p).get)
         \o getPropsWalk(h, obj, GetPrototypeOf(h, proto), getters)

\* getProps(obj, ownData = true, getters = true)
getProps(h, obj, ownData, getters) ==
    IF obj = 0 THEN <<>>
    ELSE getPropsWalk(h, obj, IF ownData THEN obj ELSE GetPrototypeOf(h, obj), getters)

\* (d.writable !== true) && d.set === undefined: a read-only data
\* descriptor or an accessor descriptor without a setter
NoWriteDesc(d) ==
    /\ ~(~d.accessor /\ d.writable)
    /\ ~(d.accessor /\ d.set)

RECURSIVE getNoWrite(_, _)
\* getNoWrite(obj): the names some level of the chain holds with a
\* descriptor that cannot be assigned to
getNoWrite(h, obj) ==
    IF obj = 0 THEN {}
    ELSE {h[obj].props[i].key :
             i \in {j \in 1..Len(h[obj].props) : NoWriteDesc(h[obj].props[j])}}
         \cup getNoWrite(h, GetPrototypeOf(h, obj))

\* the names of the exclude array (<<>> stands for null)
Excluded(exclude) == {exclude[i] : i \in 1..Len(exclude)}

RECURSIVE assignLoop(_, _, _, _, _, _, _), assignLevel(_, _, _, _, _)
assignStored(w, dest, src, nowrite, svars, ks, i) ==
    IF w.err # "" THEN Throw(w.h, w.err)
    ELSE assignLoop(w.h, dest, src, nowrite, svars, ks, i + 1)

\* for (let p of Object.getOwnPropertyNames(svars)), ks the names
assignLoop(h, dest, src, nowrite, svars, ks, i) ==
    IF i > Len(ks) THEN assignLevel(h, dest, src, nowrite, GetPrototypeOf(h, svars))
    ELSE IF ks[i] \in nowrite THEN assignLoop(h, dest, src, nowrite, svars, ks, i + 1)
    ELSE assignStored(Put(h, dest, ks[i], Get(h, src, ks[i])),
                      dest, src, nowrite, svars, ks, i)

\* while ( svars !== Object.prototype )
assignLevel(h, dest, src, nowrite, svars) ==
    IF svars = 0 THEN Ok(h, Ref(dest))
    ELSE assignLoop(h, dest, src, nowrite, svars, GetOwnPropertyNames(h, svars), 1)

\* assign(dest, src, exclude = null)
assign(h, dest, src, exclude) ==
    assignLevel(h, dest, src, getNoWrite(h, dest) \cup Excluded(exclude), src)

\* desc === null || (desc.set === undefined && !desc.writable)
SkipOwn(desc) ==
    \/ desc = NoDesc
    \/ /\ ~(desc.accessor /\ desc.set)
       /\ ~(~desc.accessor /\ desc.writable)

RECURSIVE assignOwnLoop(_, _, _, _, _, _)
assignOwnStored(w, dest, src, exclude, ks, i) ==
    IF w.err # "" THEN Throw(w.h, w.err)
    ELSE assignOwnLoop(w.h, dest, src, exclude, ks, i + 1)

assignOwnLoop(h, dest, src, exclude, ks, i) ==
    IF i > Len(ks) THEN Ok(h, Ref(dest))
    ELSE IF ks[i] \in Excluded(exclude) \/ SkipOwn(getPropDesc(h, dest, ks[i]))
    THEN assignOwnLoop(h, dest, src, exclude, ks, i + 1)
    ELSE assignOwnStored(Put(h, dest, ks[i], Get(h, src, ks[i])),
                         dest, src, exclude, ks, i)

\* assignOwn(dest, src, exclude = null)
assignOwn(h, dest, src, exclude) == assignOwnLoop(h, dest, src, exclude, ForIn(h, src), 1)

RECURSIVE ChainHasNames(_, _)
\* some level of the chain has an own property name, so the loop
\* for ( p of Object.getOwnPropertyNames(proto) ) assigns p
ChainHasNames(h, proto) ==
    IF proto = 0 THEN FALSE
    ELSE Len(h[proto].props) > 0 \/ ChainHasNames(h, GetPrototypeOf(h, proto))

\* defineVars(obj, defaultVal = null): p is declared nowhere, and the
\* module is strict code, so the first assignment to p throws
defineVars(h, obj, defaultVal) ==
    IF obj = 0 THEN Ok(h, Undef)
    ELSE IF ChainHasNames(h, obj) THEN Throw(h, "ReferenceError")
    ELSE Ok(h, Undef)

RECURSIVE defineExceptLoop(_, _, _, _, _, _, _), defineExceptLevel(_, _, _, _, _)
defineExceptStored(w, obj, defaultVal, except, proto, ks, i) ==
    IF w.err # "" THEN Throw(w.h, w.err)
    ELSE defineExceptLoop(w.h, obj, defaultVal, except, proto, ks, i + 1)

\* for ( let p of Object.getOwnPropertyNames(proto) ), ks the names
defineExceptLoop(h, obj, defaultVal, except, proto, ks, i) ==
    IF i > Len(ks)
    THEN defineExceptLevel(h, obj, defaultVal, except, GetPrototypeOf(h, proto))
    ELSE IF ks[i] \in except \/ ~StrictEq(Get(h, obj, ks[i]), Undef)
    THEN defineExceptLoop(h, obj, defaultVal, except, proto, ks, i + 1)
    ELSE IF GetOwnPropertyDescriptor(h, proto, ks[i]).set
    THEN defineExceptStored(Put(h, obj, ks[i], defaultVal),
                            obj, defaultVal, except, proto, ks, i)
    ELSE defineExceptLoop(h, obj, defaultVal, except, proto, ks, i + 1)

\* while ( proto !== Object.prototype )
defineExceptLevel(h, obj, defaultVal, except, proto) ==
    IF proto = 0 THEN Ok(h, Undef)
    ELSE defineExceptLoop(h, obj, defaultVal, except, proto,
                          GetOwnPropertyNames(h, proto), 1)

\* defineExcept(obj, defaultVal = null, except = {}); except is the set
\* of the own keys of the except object
defineExcept(h, obj, defaultVal, except) ==
    IF obj = 0 THEN Ok(h, Undef)
    ELSE defineExceptLevel(h, obj, defaultVal, except, obj)

(***************************************************************************)
(* Inputs.  Three kinds of caller: one holding two plain nested objects    *)
(* (nodes 1 and 2, over a pool of sub-objects and arrays), one holding     *)
(* two arrays of scalars, one holding a class instance and a destination   *)
(* (the sample of src/test.js among them).                                 *)
(***************************************************************************)
PlainObj(kvs) ==
    [kind |-> "obj", proto |-> 0,
     props |-> [i \in 1..Len(kvs) |-> DataProp(kvs[i][1], kvs[i][2])]]

ArrOf(vs) ==
    [kind |-> "arr", proto |-> 0,
     props |-> [i \in 1..Len(vs) |-> DataProp(ToString(i - 1), vs[i])]]

Scalars ==
    {Undef, Null, Num(0), Num(1), Str(""), Str("1"), Bool(FALSE), NaN, Fn("f")}

\* nodes 3.. of every plain heap
Pool ==
    << PlainObj(<< <<"x", Num(1)>> >>),
       PlainObj(<< <<"x", Num(1)>> >>),
       PlainObj(<< <<"x", Num(2)>>, <<"y", Ref(7)>> >>),
       PlainObj(<< <<"x", Num(0)>>, <<"z", Ref(3)>> >>),
       ArrOf(<<Num(1), Num(2)>>),
       ArrOf(<<Num(1), Num(3)>>),
       PlainObj(<<>>),
       PlainObj(<< <<"clone", Fn("cloneSelf")>>, <<"x", Num(1)>> >>),
       ArrOf(<<Ref(4)>>),
       PlainObj(<< <<"x", NaN>>, <<"y", Str("")>> >>) >>

PoolRefs == {Ref(2 + i) : i \in 1..Len(Pool)}

\* what a root's slot "a" may hold; Ref(1) and Ref(2) make cyclic graphs
SlotA == Scalars \cup PoolRefs \cup {Ref(1), Ref(2)}

\* what a root's slot "b" may hold
SlotB == {Num(3), Null}

RootNodes ==
    {PlainObj(<<>>)}
    \cup {PlainObj(<< <<"a", x>> >>) : x \in SlotA}
    \cup {PlainObj(<< <<"b", y>> >>) : y \in SlotB}
    \cup {PlainObj(<< <<"a", x>>, <<"b", y>> >>) : x \in SlotA, y \in SlotB}

PlainHeaps == {<<r1, r2>> \o Pool : r1 \in RootNodes, r2 \in RootNodes}

ArrElems == {Num(1), Str("1"), NaN}

RECURSIVE SeqsUpTo(_, _)
SeqsUpTo(S, n) ==
    IF n = 0 THEN {<<>>}
    ELSE LET shorter == SeqsUpTo(S, n - 1)
         IN  shorter \cup {Append(q, x) : q \in shorter, x \in S}

ArrayHeaps == {<<ArrOf(u), ArrOf(v)>> : u \in SeqsUpTo(ArrElems, MaxLen), v \in SeqsUpTo(ArrElems, MaxLen)}

\* a data property with the attributes Object.defineProperty or a class
\* body gives it
Field(k, v, w, en) == [DataProp(k, v) EXCEPT !.writable = w, !.enumerable = en]

Constructor == Field("constructor", Fn("constructor"), TRUE, FALSE)

\* what a level of the chain may define for the name "v"
InstanceV == {<<>>, <<Field("v", Num(5), TRUE, TRUE)>>, <<Field("v", Num(5), FALSE, TRUE)>>}

DerivedV ==
    {<<>>, <<AccProp("v", Str("derived"), TRUE, FALSE, FALSE)>>,
     <<AccProp("v", Str("derived"), TRUE, TRUE, FALSE)>>,
     <<BackedProp("v", FALSE)>>}

BaseV ==
    {<<>>, <<AccProp("v", Str("base"), TRUE, FALSE, FALSE)>>,
     <<AccProp("v", Str("base"), TRUE, TRUE, FALSE)>>,
     <<AccProp("v", Str("base"), TRUE, TRUE, TRUE)>>,
     <<BackedProp("v", TRUE)>>,
     <<Field("v", Fn("method"), TRUE, FALSE)>>}

\* what the destination object may hold for "x" and for "v"
DestX == {<<>>, <<Field("x", Num(0), TRUE, TRUE)>>, <<Field("x", Num(0), FALSE, TRUE)>>}

DestV == {<<>>, <<Field("v", Num(0), TRUE, TRUE)>>}

\* node 1 an instance of Derived (node 2, its prototype) extending Base
\* (node 3); node 4 a destination, plain or another instance of Derived
ClassHeaps ==
    {<< [kind |-> "obj", proto |-> 2, props |-> <<DataProp("x", Num(1))>> \o iv],
        [kind |-> "obj", proto |-> 3, props |-> <<Constructor>> \o dv],
        [kind |-> "obj", proto |-> 0, props |-> <<Constructor>> \o bv],
        [kind |-> "obj", proto |-> dp, props |-> dx \o dw] >> :
        iv \in InstanceV, dv \in DerivedV, bv \in BaseV,
        dp \in {0, 2}, dx \in DestX, dw \in DestV}

\* the sample of src/test.js: new Child() with selfPrivate added, and an
\* empty destination
SampleHeap ==
    << [kind |-> "obj", proto |-> 2,
        props |-> << DataProp("parentPrivate", Str("parentPrivate")),
                     DataProp("childPrivate", Str("childPrivate")),
                     DataProp("selfPrivate", Str("selfPrivate")) >>],
       [kind |-> "obj", proto |-> 3,
        props |-> <<Constructor, AccProp("childPublic", Str("childPublic"), TRUE, FALSE, FALSE)>>],
       [kind |-> "obj", proto |-> 0,
        props |-> <<Constructor, BackedProp("parentPublic", TRUE)>>],
       NewObj >>

NoTrip == [original |-> 0, copy |-> 0, candidate |-> 0]

InitVars(h, kind) ==
    /\ heap = h
    /\ pre = h
    /\ pc = kind
    /\ op = ""
    /\ args = <<0, 0>>
    /\ ret = Undef
    /\ err = ""
    /\ names = <<>>
    /\ trip = NoTrip

Init ==
    \/ \E h \in PlainHeaps : InitVars(h, "plain")
    \/ \E h \in ArrayHeaps : InitVars(h, "arrays")
    \/ \E h \in ClassHeaps \cup {SampleHeap} : InitVars(h, "class")

CalledWith(r, name, a, next) ==
    /\ heap' = r.h
    /\ pre' = heap
    /\ op' = name
    /\ args' = a
    /\ ret' = r.val
    /\ err' = r.err
    /\ pc' = next

Called(r, name, x, y, next) == CalledWith(r, name, <<x, y>>, next)

\* a call the script goes on after, unless it threw
Defined(r, name, a) == CalledWith(r, name, a, IF r.err = "" THEN "defined" ELSE "done")

Cloned(r, x) ==
    IF pc = "plain" /\ x = 1 /\ r.err = ""
    THEN /\ Called(r, "clone", x, 0, "cloned")
         /\ trip' = [trip EXCEPT !.original = x, !.copy = r.val.n]
    ELSE /\ Called(r, "clone", x, 0, "done")
         /\ trip' = trip

\* clone(x)
DoClone ==
    /\ pc \in {"plain", "arrays"}
    /\ \E x \in {1, 2} : Cloned(clone(heap, x, 0, 1), x)
    /\ UNCHANGED names

\* changes(c, o); after a clone, changes(candidate, original)
DoChanges ==
    /\ \/ /\ pc = "plain"
          /\ \E c \in {1, 2}, o \in {1, 2} :
                /\ Called(changes(heap, c, o, 1), "changes", c, o, "done")
                /\ trip' = trip
       \/ /\ pc = "cloned"
          /\ \E c \in {2, trip.copy} :
                /\ Called(changes(heap, c, trip.original, 1), "changes", c, trip.original, "diffed")
                /\ trip' = [trip EXCEPT !.candidate = c]
    /\ UNCHANGED names

\* merge(d, s); after the diff, merge(copy, diff)
DoMerge ==
    /\ \/ /\ pc = "plain"
          /\ \E d \in {1, 2}, s \in {1, 2} :
                Called(merge(heap, Ref(d), Ref(s), 1), "merge", d, s, "done")
       \/ /\ pc = "diffed"
          /\ Called(merge(heap, Ref(trip.copy), ret, 1), "merge", trip.copy,
                    IF IsRef(ret) THEN ret.n ELSE 0, "merged")
    /\ UNCHANGED <<names, trip>>

\* mergeSafe(d, s)
DoMergeSafe ==
    /\ pc = "plain"
    /\ \E d \in {1, 2}, s \in {1, 2} :
          Called(mergeSafe(heap, d, s, 1), "mergeSafe", d, s, "done")
    /\ UNCHANGED <<names, trip>>

\* mergeArrays(x, y)
DoMergeArrays ==
    /\ pc = "arrays"
    /\ \E x \in {1, 2}, y \in {1, 2} :
          Called(mergeArrays(heap, x, y), "mergeArrays", x, y, "done")
    /\ UNCHANGED <<names, trip>>

\* defaultVal and exclude / except arguments
Defaults == {Null, Str("defined")}

Excludes == {<<>>, <<"x">>}

Excepts == {{}, {"v"}}

\* defineVars(obj, defaultVal), the first call src/test.js makes
DoDefineVars ==
    /\ pc = "class"
    /\ \E o \in {1, 4}, dv \in Defaults :
          Defined(defineVars(heap, o, dv), "defineVars", <<o, dv>>)
    /\ UNCHANGED <<names, trip>>

\* defineExcept(obj, defaultVal, except)
DoDefineExcept ==
    /\ pc = "class"
    /\ \E dv \in Defaults, ex \in Excepts :
          Defined(defineExcept(heap, 1, dv, ex), "defineExcept", <<1, dv, ex>>)
    /\ UNCHANGED <<names, trip>>

\* assign(dest, src, exclude)
DoAssign ==
    /\ pc \in {"class", "defined"}
    /\ \E ds \in {<<4, 1>>, <<1, 4>>}, ex \in Excludes :
          CalledWith(assign(heap, ds[1], ds[2], ex), "assign", <<ds[1], ds[2], ex>>, "done")
    /\ UNCHANGED <<names, trip>>

\* assignOwn(dest, src, exclude)
DoAssignOwn ==
    /\ pc \in {"class", "defined"}
    /\ \E ds \in {<<4, 1>>, <<1, 4>>}, ex \in Excludes :
          CalledWith(assignOwn(heap, ds[1], ds[2], ex), "assignOwn", <<ds[1], ds[2], ex>>, "done")
    /\ UNCHANGED <<names, trip>>

\* cloneClass(src) and cloneClass(src, dest)
DoCloneClass ==
    /\ pc \in {"class", "defined"}
    /\ \E sd \in {<<1, 0>>, <<1, 4>>, <<4, 0>>, <<4, 1>>} :
          Called(cloneClass(heap, sd[1], sd[2], 1), "cloneClass", sd[1], sd[2], "done")
    /\ UNCHANGED <<names, trip>>

\* getProps(obj, ownData, getters)
DoGetProps ==
    /\ pc \in {"class", "defined"}
    /\ \E ownData \in BOOLEAN, getters \in BOOLEAN :
          /\ names' = getProps(heap, 1, ownData, getters)
          /\ op' = "getProps"
          /\ args' = <<1, ownData, getters>>
          /\ ret' = Undef
          /\ pc' = "done"
    /\ pre' = heap
    /\ UNCHANGED <<heap, err, trip>>

Next ==
    \/ DoClone
    \/ DoChanges
    \/ DoMerge
    \/ DoMergeSafe
    \/ DoMergeArrays
    \/ DoCloneClass
    \/ DoGetProps
    \/ DoDefineVars
    \/ DoDefineExcept
    \/ DoAssign
    \/ DoAssignOwn

Spec == Init /\ [][Next]_vars

(***************************************************************************)
(* What the properties speak of: reachability, cycles, structural          *)
(* equality.                                                               *)
(***************************************************************************)
\* the nodes the slots of node a point to
Targets(h, a) ==
    {h[a].props[i].value.n : i \in {j \in 1..Len(h[a].props) : IsRef(h[a].props[j].value)}}

RECURSIVE Reach(_, _)
\* the nodes reachable from the nodes of S, S included
Reach(h, S) ==
    IF (S \cup UNION {Targets(h, a) : a \in S}) = S THEN S
    ELSE Reach(h, S \cup UNION {Targets(h, a) : a \in S})

Acyclic(h, root) == \A a \in Reach(h, {root}) : a \notin Reach(h, Targets(h, a))

KeySet(h, a) == {ForIn(h, a)[i] : i \in 1..Len(ForIn(h, a))}

RECURSIVE DeepEq(_, _, _, _)
\* v1 in heap h1 and v2 in heap h2 are the same scalar, or aggregates of
\* the same kind with the same keys and structurally equal slots
DeepEq(h1, v1, h2, v2) ==
    IF IsRef(v1) /\ IsRef(v2)
    THEN /\ h1[v1.n].kind = h2[v2.n].kind
         /\ KeySet(h1, v1.n) = KeySet(h2, v2.n)
         /\ \A k \in KeySet(h1, v1.n) : DeepEq(h1, Get(h1, v1.n, k), h2, Get(h2, v2.n, k))
    ELSE v1 = v2

RECURSIVE EqOnKeysOf(_, _, _)
\* v equals w on every key w has, at every depth (an absent slot reads
\* as undefined)
EqOnKeysOf(h, v, w) ==
    IF IsRef(v) /\ IsRef(w)
    THEN /\ h[v.n].kind = h[w.n].kind
         /\ \A k \in KeySet(h, w.n) : EqOnKeysOf(h, Get(h, v.n, k), Get(h, w.n, k))
    ELSE v = w

\* the sub-values of x that bring their own clone()
CloneCapable(h, x) == {a \in Reach(h, {x}) \ {x} : HasCloneFn(Get(h, a, "clone"))}

NoDuplicates(q) == \A i, j \in 1..Len(q) : i # j => q[i] # q[j]

\* the value is a scalar in the spec's sense: not an aggregate, not a sequence
IsScalar(v) == ~IsRef(v)

(***************************************************************************)
(* The claims.                                                             *)
(***************************************************************************)
\* C1: for acyclic original and candidate, after
\* merge(clone(original), changes(candidate, original)) the merged object
\* equals candidate on every key candidate has.
C1_DiffMergeInverse ==
    (/\ pc = "merged"
     /\ Acyclic(heap, trip.original)
     /\ Acyclic(heap, trip.candidate))
    => /\ err = ""
       /\ EqOnKeysOf(heap, Ref(trip.copy), Ref(trip.candidate))

\* clone(x) returned a structural copy of x that shares no node with x,
\* the sub-values with their own clone() and what they reach excepted
IsIndependentCopy ==
    /\ err = ""
    /\ DeepEq(heap, ret, pre, Ref(args[1]))
    /\ (Reach(heap, {ret.n}) \cap Reach(pre, {args[1]}))
          \subseteq Reach(pre, CloneCapable(pre, args[1]))

\* C2 as stated: for any acyclic x, an array included, clone(x) is
\* deep-equal to x and shares no aggregate or sequence with it.
C2_CloneAnyRoot ==
    (op = "clone" /\ Acyclic(pre, args[1])) => IsIndependentCopy

\* C2 amended: for any acyclic x that is not an array, clone(x) is
\* deep-equal to x and shares no aggregate or sequence with it (except
\* through a sub-value's own clone()).
C2_CloneObjectRoot ==
    (op = "clone" /\ Acyclic(pre, args[1]) /\ pre[args[1]].kind = "obj") => IsIndependentCopy

\* a clone of an object holding an object that holds an array
C2_Witness ==
    /\ op = "clone"
    /\ Get(pre, args[1], "a") = Ref(5)
    /\ IsArray(heap, Get(heap, Get(heap, ret.n, "a").n, "y"))
    /\ Get(heap, Get(heap, ret.n, "a").n, "y") # Ref(7)

\* C3: mergeSafe(dest, src) overwrites nothing: every slot reachable
\* from dest that held a value other than undefined holds the same scalar
\* or the same reference afterwards (so null stays null), and every array
\* below dest has the contents it had.
C3_MergeSafePreserves ==
    op = "mergeSafe" =>
        \A a \in Reach(pre, {args[1]}) :
            /\ (pre[a].kind = "arr" /\ a # args[1]) => heap[a] = pre[a]
            /\ \A i \in 1..Len(pre[a].props) :
                  pre[a].props[i].value # Undef =>
                      /\ HasOwn(heap[a], pre[a].props[i].key)
                      /\ Get(heap, a, pre[a].props[i].key) = pre[a].props[i].value

\* mergeSafe met a null slot it left alone, recursed into an object on
\* both sides and added a cloned array below it
C3_Witness ==
    /\ op = "mergeSafe"
    /\ err = ""
    /\ Get(pre, args[1], "b") = Null
    /\ Get(pre, args[2], "b") = Num(3)
    /\ Get(pre, args[1], "a") = Ref(3)
    /\ Get(pre, args[2], "a") = Ref(5)
    /\ Get(heap, 3, "x") = Num(1)
    /\ IsArray(heap, Get(heap, 3, "y"))
    /\ Get(heap, args[1], "b") = Null

\* C4: after merge(dest, src), for every slot of src holding a scalar
\* (number, string, boolean, null, undefined) or a callable, dest[slot]
\* equals src[slot].
C4_MergeOverwritesScalars ==
    (op = "merge" /\ pc = "done" /\ err = "") =>
        \A p \in KeySet(pre, args[2]) :
            IsScalar(Get(pre, args[2], p)) => Get(heap, args[1], p) = Get(pre, args[2], p)

\* the slot is under none of merge's rules: src holds an aggregate or a
\* sequence, dest neither a sequence nor an aggregate
Mismatch(h, d, s, p) ==
    /\ IsRef(Get(h, s, p))
    /\ ~IsRef(Get(h, d, p))

\* C5: merge(dest, src) never throws on a type mismatch, null and absent
\* slots included, and leaves the mismatched slot of dest as it was.
C5_MergeNeverThrows ==
    (op = "merge" /\ pc = "done" /\ Acyclic(pre, args[1]) /\ Acyclic(pre, args[2])) =>
        /\ err = ""
        /\ \A p \in KeySet(pre, args[2]) :
              Mismatch(pre, args[1], args[2], p) => Get(heap, args[1], p) = Get(pre, args[1], p)

\* C6: changes(x, x) returns null for any acyclic x, whatever nested
\* aggregates, arrays and falsy leaves x holds.
C6_ChangesSelfIsNone ==
    (op = "changes" /\ args[1] = args[2] /\ Acyclic(pre, args[2]))
    => (err = "" /\ ret = Null)

\* changes compared with itself an object holding null and a nested object
\* of falsy leaves
C6_Witness ==
    /\ op = "changes"
    /\ args[1] = args[2]
    /\ Get(pre, args[1], "a") = Ref(12)
    /\ Get(pre, args[1], "b") = Null
    /\ Get(pre, 12, "x") = NaN
    /\ Get(pre, 12, "y") = Str("")
    /\ ret = Null

\* C7: mergeArrays(a1, a2) returns a new array: a1 in order, then the
\* elements of a2, in order, that do not occur in a1; duplicates inside
\* either stay; a1 and a2 are as they were.
C7_MergeArraysResult ==
    op = "mergeArrays" =>
        /\ err = ""
        /\ IsArray(heap, ret)
        /\ ret.n \notin 1..Len(pre)
        /\ Elems(heap, ret.n)
             = Elems(pre, args[1])
               \o SelectSeq(Elems(pre, args[2]),
                            LAMBDA v : \A i \in 1..Len(pre[args[1]].props) :
                                          pre[args[1]].props[i].value # v)
        /\ heap[args[1]] = pre[args[1]]
        /\ heap[args[2]] = pre[args[2]]

\* a1 with a duplicate, a2 with an element of a1 and a duplicate of its own
C7_Witness ==
    /\ op = "mergeArrays"
    /\ Elems(pre, args[1]) = <<Num(1), Num(1)>>
    /\ Elems(pre, args[2]) = <<Str("1"), Num(1), Str("1")>>
    /\ Elems(heap, ret.n) = <<Num(1), Num(1), Str("1"), Str("1")>>

\* C8: getProps lists each name at most once, also when the name is
\* defined at more than one level of the chain.
C8_GetPropsNoDuplicates ==
    op = "getProps" => NoDuplicates(names)

\* the destination's property model says the slot is writable: its
\* first-found descriptor is a writable data slot or has a setter
SaysWritable(def) ==
    /\ def # NoDesc
    /\ (~def.accessor /\ def.writable) \/ (def.accessor /\ def.set)

\* the slot of dest that an assignment of key p lands in
Landing(def, p) == IF def.accessor THEN "_" \o p ELSE p

\* C9: cloneClass(src, dest) copies a slot of src into dest exactly when
\* dest's first-found descriptor for it is writable or setter-backed; a
\* read-only or setter-less slot is not overwritten.
C9_CloneClassCopiesWritable ==
    (op = "cloneClass" /\ args[2] # 0 /\ err = "") =>
        \A p \in KeySet(pre, args[1]) :
            IF getPropDesc(pre, args[2], p) = NoDesc THEN TRUE
            ELSE IF SaysWritable(getPropDesc(pre, args[2], p))
            THEN Get(heap, args[2], Landing(getPropDesc(pre, args[2], p), p))
                    = Get(pre, args[1], p)
            ELSE heap[args[2]] = pre[args[2]]

\* C10: clone of a cyclic aggregate ends in the explicit failure
\* RecursionLimitExceeded; it neither returns nor recurses on.
C10_CyclicCloneFailsExplicitly ==
    (op = "clone" /\ ~Acyclic(pre, args[1])) => err = "RecursionLimitExceeded"

====
